---------------------------- MODULE Spec2Model ----------------------------
(***************************************************************************)
(* sheets-api: the service-account token cache of WebCryptoSheetsClient,   *)
(* the appendToSheet / readFromSheet flows built on it, and the row/record *)
(* mapping between header-less tabular storage and field-keyed records.    *)
(*                                                                         *)
(* A process is one logical flow.  Every action is one synchronous run of  *)
(* the code between two suspension points (an await on a network call).    *)
(***************************************************************************)
EXTENDS Integers, Sequences, FiniteSets, TLC

----------------------------------------------------------------------------
(* Bounds of the model *)

\* Clock ticks the model lets pass.
MaxTicks == 6

\* Calls made on the long-lived client.
MaxCalls == 4

\* Records in a batch handed to the row mapper.
MaxRecords == 2

\* Requests the service handles, one after another.
MaxFlows == 2

\* Rows and cells per row of a tab that is read.
MaxReadRows == 3
MaxReadCols == 2

----------------------------------------------------------------------------
(* Program constants and value domains *)

\* One tick of the model's clock, in ms: a fifth of the cache's margin.
TickMs == 11 * 60 * 1000

\* tokenExpiry = now + (55 * 60 * 1000)
TokenMarginMs == 55 * 60 * 1000

\* private accessToken: string | null = null
NoToken == 0

\* The private keys a client may be built with: the PEM of a PKCS8 RSA key,
\* the PEM of a PKCS8 key that is not an RSA key, and a text that is not the
\* base64 of anything between the PEM lines.
PrivateKeys == {"pkcs8", "not_rsa", "not_base64"}

\* SA_PRIVATE_KEY is not set in the environment.
Unset == "unset"
EnvKeys == PrivateKeys \cup {Unset}

\* The flows; each is one caller.
Procs == {"p1", "p2"}

\* A long-lived client object shared by its callers; a flow's own client is
\* named after the flow.
SharedClient == "shared"

Clients == Procs \cup {SharedClient}

----------------------------------------------------------------------------
(* Field values.  A value is tagged with its JavaScript type; s is          *)
(* String(value).  Null stands for null and undefined.                      *)

Num(s)  == [t |-> "num", s |-> s]
Str(s)  == [t |-> "str", s |-> s]
Bool(s) == [t |-> "bool", s |-> s]
Null    == [t |-> "null", s |-> "null"]

\* The '' of `item[key] ?? ''`.
EmptyString == Str("")

\* Field names.
Keys == {"a", "b", "c"}

\* Field values of the records the model submits.
FieldValues == {Num("1"), Null}

\* A record is its fields in Object.keys order: a sequence of [k, v] with
\* distinct keys.
KeySeqs ==
  {ks \in UNION {[1..n -> Keys] : n \in 0..Cardinality(Keys)} :
     \A i, j \in 1..Len(ks) : ks[i] = ks[j] => i = j}

RecordsOver(vals) ==
  UNION {{[i \in 1..Len(ks) |-> [k |-> ks[i], v |-> vs[i]]]
            : vs \in [1..Len(ks) -> vals]} : ks \in KeySeqs}

\* Every batch of at most MaxRecords records.
AllBatches == UNION {[1..n -> RecordsOver(FieldValues)] : n \in 0..MaxRecords}

----------------------------------------------------------------------------
(* RowMapper: the column union and the rows of appendToSheet *)

\* Object.keys(item)
ObjectKeys(item) == [i \in 1..Len(item) |-> item[i].k]

\* allKeys.add(key): a Set keeps its elements in insertion order and ignores
\* an element it already holds.
SetAdd(cols, key) ==
  IF \E i \in 1..Len(cols) : cols[i] = key THEN cols ELSE Append(cols, key)

\* Object.keys(item).forEach(key => allKeys.add(key))
RECURSIVE AddKeys(_, _)
AddKeys(cols, ks) ==
  IF ks = <<>> THEN cols ELSE AddKeys(SetAdd(cols, Head(ks)), Tail(ks))

\* data.forEach(item => ...)
RECURSIVE AllKeys(_, _)
AllKeys(cols, d) ==
  IF d = <<>> THEN cols ELSE AllKeys(AddKeys(cols, ObjectKeys(Head(d))), Tail(d))

\* A bug a rewrite could make: the columns of the first record only.
ColumnsOfFirstRecord(d) == ObjectKeys(d[1])

\* const columns = Array.from(allKeys)
Columns(d) == AllKeys(<<>>, d)

HasField(item, key) == \E i \in 1..Len(item) : item[i].k = key

\* item[key]: undefined when the record has no such field.
Lookup(item, key) ==
  IF HasField(item, key)
    THEN item[CHOOSE i \in 1..Len(item) : item[i].k = key].v
    ELSE Null

\* A bug a rewrite could make: item[key] || '', which takes every falsy
\* value for a missing one.
CellByOr(item, key) ==
  LET v == Lookup(item, key)
  IN IF v \in {Null, Num("0"), Bool("false"), Str("")} THEN EmptyString ELSE v

\* item[key] ?? ''
Cell(item, key) ==
  LET v == Lookup(item, key) IN IF v = Null THEN EmptyString ELSE v

\* A bug a rewrite could make: Object.values(item) as the row.
RowOfOwnValues(item, columns) == [j \in 1..Len(item) |-> item[j].v]

\* columns.map(key => item[key] ?? '')
Row(item, columns) == [j \in 1..Len(columns) |-> Cell(item, columns[j])]

\* A bug a rewrite could make: only the first record is turned into a row.
FirstRowOnly(d, columns) == <<Row(d[1], columns)>>

\* const values = data.map(item => ...)
Values(d, columns) == [i \in 1..Len(d) |-> Row(d[i], columns)]

\* A bug a rewrite could make: the empty batch is not told apart.
NeverEmptyBatch(d) == FALSE

\* if (data.length === 0)
IsEmptyBatch(d) == Len(d) = 0

\* A range expression: bang is range.includes('!'), tab the text before the
\* first '!', cells the rest.
Range(bang, tab, cells) == [bang |-> bang, tab |-> tab, cells |-> cells]

\* Tab titles a spreadsheet may hold.
TabTitles == {"Leads", "Log"}

----------------------------------------------------------------------------
(* State *)

VARIABLES
  now,          \* Date.now(), ms
  accessToken,  \* this.accessToken of each client (NoToken = null)
  tokenExpiry,  \* this.tokenExpiry of each client
  clientKey,    \* this.privateKey of each client
  proc,         \* each flow's position, arguments and locals
  issued,       \* token endpoint: the exchanges it granted, token k = issued[k]
  tabs,         \* remote spreadsheet metadata: the tab titles, in order
  sheet,        \* remote spreadsheet: the rows of each tab
  calls,        \* client calls and flows started so far
  mData,        \* row mapper alone: the batch
  mColumns,     \* row mapper alone: const columns
  mValues,      \* row mapper alone: const values
  mStage,       \* row mapper alone: "input" or "built"
  handlers      \* each route handler's request, environment and response

vars == <<now, accessToken, tokenExpiry, clientKey, proc, issued, tabs, sheet, calls,
          mData, mColumns, mValues, mStage, handlers>>

cacheVars  == <<accessToken, tokenExpiry, clientKey>>
remoteVars == <<issued, tabs, sheet>>
mapperVars == <<mData, mColumns, mValues, mStage>>

NoRange == Range(FALSE, "", "")

\* A flow's result; kind is "none" until the flow returns or throws.
\* error names the throw site, detail is the response text in its message.
NoResult ==
  [kind |-> "none", error |-> "", detail |-> "", written |-> 0, data |-> <<>>,
   count |-> 0]
Returned(written, d, count) ==
  [kind |-> "ok", error |-> "", detail |-> "", written |-> written, data |-> d,
   count |-> count]
ThrownWith(error, detail) ==
  [kind |-> "error", error |-> error, detail |-> detail, written |-> 0,
   data |-> <<>>, count |-> 0]
Thrown(error) == ThrownWith(error, "")

\* The bodies the token endpoint sends with a non-2xx answer.
Bodies == {"invalid_grant", "unavailable"}

\* The body of an append answer: result.updates?.updatedRows, when present.
NoUpdates == [present |-> FALSE, updatedRows |-> 0]
AppendResponses(n) == {[present |-> TRUE, updatedRows |-> n], NoUpdates}

\* The claims of a signed assertion that the model follows: iat and exp, in
\* seconds.
NoAssertion == [iat |-> 0, exp |-> 0]

\* A request on the wire.
Request(kind, bearer, range, rows) ==
  [kind |-> kind, bearer |-> bearer, range |-> range, values |-> rows,
   assertion |-> NoAssertion]

\* The JSON body and status a route handler answers with.
NoResponse ==
  [ok |-> FALSE, status |-> 0, error |-> "", detail |-> <<>>, written |-> 0,
   data |-> <<>>, count |-> 0]

\* A route handler's request: the route, the SA_EMAIL and SA_PRIVATE_KEY of
\* its environment (set or not), its answer, and the lines it wrote with
\* console.log.
NoRequest ==
  [route |-> "none", mode |-> "none", projectId |-> "", listName |-> "",
   email |-> TRUE, key |-> TRUE, privateKey |-> "pkcs8", stage |-> "none",
   seq |-> 0, response |-> NoResponse, log |-> <<>>]

IdleProc ==
  [pc |-> "idle", flow |-> "none", method |-> "none", client |-> SharedClient,
   now |-> 0, token |-> NoToken, range |-> NoRange, data |-> <<>>,
   format |-> "objects", values |-> <<>>, targetRange |-> NoRange,
   sent |-> <<>>, body |-> "", updates |-> NoUpdates, result |-> NoResult,
   seq |-> 0, privateKey |-> "pkcs8"]

----------------------------------------------------------------------------
(* TokenCache: WebCryptoSheetsClient.getAccessToken *)

\* A bug a rewrite could make: the token is still served at its expiry.
TokenValidAtExpiry(tok, expiry, t) == tok # NoToken /\ t <= expiry

\* A bug a rewrite could make: the expiry is not looked at.
TokenPresent(tok, expiry, t) == tok # NoToken

\* if (this.accessToken && now < this.tokenExpiry): a held token is a
\* non-empty string, so its truthiness is its presence.
TokenValid(tok, expiry, t) == tok # NoToken /\ t < expiry

\* A bug a rewrite could make: the margin is left out of the expiry.
ExpiryAtEntry(t) == t

\* this.tokenExpiry = now + (55 * 60 * 1000), now being the const read on entry.
NewExpiry(t) == t + TokenMarginMs

\* pemToArrayBuffer: atob of the text between the PEM lines throws on what is
\* not base64.
PemDecodes(privateKey) == privateKey # "not_base64"

\* A bug a rewrite could make: the assertion is posted without a signature
\* when the key does not import.
KeyNotNeeded(privateKey) == TRUE

\* crypto.subtle.importKey('pkcs8', keyData, {name: 'RSASSA-PKCS1-v1_5', ...})
\* resolves for a PKCS8 RSA key only.
KeyImports(privateKey) == PemDecodes(privateKey) /\ privateKey = "pkcs8"

\* exp: now + 3600
AssertionLifeS == 3600

\* WebCryptoJWT.createJWT at instant t: now = Math.floor(Date.now() / 1000),
\* iat: now, exp: now + 3600.
CreateJWT(t) == [iat |-> t \div 1000, exp |-> (t \div 1000) + AssertionLifeS]

\* The POST of WebCryptoJWT.exchangeJWTForToken, with the assertion built at
\* instant t.
TokenPost(t) ==
  [Request("token", NoToken, NoRange, <<>>) EXCEPT !.assertion = CreateJWT(t)]

\* The exchanges the flow has posted.
PostedBefore(f) ==
  {i \in DOMAIN f.sent : f.sent[i].kind = "token"}

\* A bug a rewrite could make: the assertion of the first mint is kept and
\* posted again by the later ones.
GetAccessTokenKeepingAssertion(f, tok, expiry) ==
  IF tok # NoToken /\ now < expiry
    THEN [f EXCEPT !.now = now, !.token = tok, !.pc = "token"]
    ELSE [f EXCEPT !.now = now, !.token = NoToken, !.pc = "mint",
                   !.sent = Append(f.sent,
                     IF PostedBefore(f) = {} THEN TokenPost(now)
                     ELSE f.sent[CHOOSE i \in PostedBefore(f) : TRUE])]

\* A bug a rewrite could make: the field is returned as it is, null included.
GetAccessTokenUnchecked(f, tok, expiry) ==
  [f EXCEPT !.now = now, !.token = tok, !.pc = "token"]

\* getAccessToken up to its first suspension, entered by flow state f on a
\* client holding (tok, expiry): a valid token is returned at once, otherwise
\* the assertion is built, signed with the imported key, and its exchange is
\* in flight; a key that does not import ends the call and the flow with the
\* error of atob or importKey.
GetAccessToken(f, tok, expiry) ==
  IF TokenValid(tok, expiry, now)
    THEN [f EXCEPT !.now = now, !.token = tok, !.pc = "token"]
    ELSE IF ~KeyImports(f.privateKey)
      THEN [f EXCEPT !.now = now, !.token = NoToken, !.pc = "idle",
                     !.result = Thrown("key_invalid")]
      ELSE [f EXCEPT !.now = now, !.token = NoToken, !.pc = "mint",
                     !.sent = Append(f.sent, TokenPost(now))]

\* A bug a rewrite could make: the expiry is counted from the instant the
\* exchange returned.
TokenExchangeOkExpiryFromReturn(p) ==
  /\ proc[p].pc = "mint"
  /\ LET c == proc[p].client
         t == Len(issued) + 1
     IN /\ issued' = Append(issued, [client |-> c, requestedAt |-> proc[p].now,
                                     flow |-> proc[p].seq])
        /\ accessToken' = [accessToken EXCEPT ![c] = t]
        /\ tokenExpiry' = [tokenExpiry EXCEPT ![c] = NewExpiry(now)]
        /\ proc' = [proc EXCEPT ![p].token = t, ![p].pc = "token"]
  /\ UNCHANGED <<now, clientKey, tabs, sheet, calls, mapperVars, handlers>>

\* The token endpoint answers 2xx: it grants a token no exchange returned
\* before, to an assertion that names its issuer.  The caller stores it, sets
\* the expiry from the instant it read on entry, and returns the stored field.
TokenExchangeOk(p) ==
  /\ proc[p].pc = "mint"
  /\ handlers[p].email
  /\ LET c == proc[p].client
         t == Len(issued) + 1
     IN /\ issued' = Append(issued, [client |-> c, requestedAt |-> proc[p].now,
                                     flow |-> proc[p].seq])
        /\ accessToken' = [accessToken EXCEPT ![c] = t]
        /\ tokenExpiry' = [tokenExpiry EXCEPT ![c] = NewExpiry(proc[p].now)]
        /\ proc' = [proc EXCEPT ![p].token = accessToken'[c], ![p].pc = "token"]
  /\ UNCHANGED <<now, clientKey, tabs, sheet, calls, mapperVars, handlers>>

\* A bug a rewrite could make: response.ok is not tested, and the token read
\* out of the error body is undefined.
TokenExchangeUnchecked(p) ==
  /\ proc[p].pc = "mint"
  /\ \E body \in Bodies :
       proc' = [proc EXCEPT ![p].pc = "token", ![p].body = body,
                            ![p].token = NoToken]
  /\ UNCHANGED <<now, cacheVars, remoteVars, calls, mapperVars, handlers>>

\* A bug a rewrite could make: a refused exchange clears the cache.
TokenExchangeFailClearing(p) ==
  /\ proc[p].pc = "mint"
  /\ accessToken' = [accessToken EXCEPT ![proc[p].client] = NoToken]
  /\ tokenExpiry' = [tokenExpiry EXCEPT ![proc[p].client] = 0]
  /\ \E body \in Bodies :
       proc' = [proc EXCEPT ![p].pc = "idle", ![p].body = body,
                  ![p].result = ThrownWith("token_exchange_failed", body)]
  /\ UNCHANGED <<now, clientKey, remoteVars, calls, mapperVars, handlers>>

\* A bug a rewrite could make: a refused exchange is posted again.
TokenExchangeRetried(p) ==
  /\ proc[p].pc = "mint"
  /\ Len(proc[p].sent) < 4
  /\ proc' = [proc EXCEPT ![p].sent = Append(proc[p].sent, TokenPost(proc[p].now))]
  /\ UNCHANGED <<now, cacheVars, remoteVars, calls, mapperVars, handlers>>

\* The token endpoint answers non-2xx: exchangeJWTForToken throws, and the
\* error leaves the client method and the flow that called it.
TokenExchangeFail(p) ==
  /\ proc[p].pc = "mint"
  /\ \E body \in Bodies :
       proc' = [proc EXCEPT ![p].pc = "idle", ![p].body = body,
                  ![p].result = ThrownWith("token_exchange_failed", body)]
  /\ UNCHANGED <<now, cacheVars, remoteVars, calls, mapperVars, handlers>>

\* The token in hand, the client method sends its request with it as bearer.
SendRequest(p) ==
  /\ proc[p].pc = "token"
  /\ LET f == proc[p]
         req == CASE f.method = "info"   -> Request("info", f.token, NoRange, <<>>)
                  [] f.method = "append" -> Request("append", f.token, f.targetRange, f.values)
                  [] OTHER               -> Request("values", f.token, f.range, <<>>)
     IN proc' = [proc EXCEPT ![p].sent = Append(f.sent, req), ![p].pc = "wait"]
  /\ UNCHANGED <<now, cacheVars, remoteVars, calls, mapperVars, handlers>>

\* Time passes.
Tick ==
  /\ now < MaxTicks * TickMs
  /\ now' = now + TickMs
  /\ UNCHANGED <<cacheVars, proc, remoteVars, calls, mapperVars, handlers>>

----------------------------------------------------------------------------
(* A caller invoking getSpreadsheetInfo on the long-lived client *)

\* client.getSpreadsheetInfo(...) up to its first suspension.
CallGetSpreadsheetInfo(p) ==
  /\ proc[p].pc = "idle"
  /\ calls < MaxCalls
  /\ calls' = calls + 1
  /\ proc' = [proc EXCEPT ![p] =
       GetAccessToken([IdleProc EXCEPT !.flow = "call", !.method = "info",
                                       !.client = SharedClient,
                                       !.privateKey = clientKey[SharedClient],
                                       !.seq = calls + 1],
                      accessToken[SharedClient], tokenExpiry[SharedClient])]
  /\ UNCHANGED <<now, cacheVars, remoteVars, mapperVars, handlers>>

\* The metadata answer of a direct call: response.json() or the throw.
InfoReturned(p) ==
  /\ proc[p].pc = "wait" /\ proc[p].method = "info" /\ proc[p].flow = "call"
  /\ \E ok \in BOOLEAN :
       proc' = [proc EXCEPT ![p].pc = "idle",
                  ![p].result = IF ok THEN Returned(0, <<>>, 0) ELSE Thrown("not_found")]
  /\ UNCHANGED <<now, cacheVars, remoteVars, calls, mapperVars, handlers>>

----------------------------------------------------------------------------
(* The remote tabular storage *)

\* The text a cell reads back as.
CellText(v) == v.s

\* The length of a row without its trailing empty cells.
RECURSIVE TrimmedLen(_)
TrimmedLen(row) ==
  IF row = <<>> \/ CellText(row[Len(row)]) # ""
    THEN Len(row)
    ELSE TrimmedLen(SubSeq(row, 1, Len(row) - 1))

\* A row as values.get returns it: strings, trailing empty cells left out.
RowText(row) == [j \in 1..TrimmedLen(row) |-> CellText(row[j])]

HasTab(title) == \E i \in 1..Len(tabs) : tabs[i] = title

\* The tab a range addresses at the remote: the named one, else the first.
AddressedTab(range) == IF range.bang THEN range.tab ELSE tabs[1]
Addressable(range) == IF range.bang THEN HasTab(range.tab) ELSE Len(tabs) > 0

\* The rows without the trailing empty ones.
RECURSIVE TrimmedRows(_)
TrimmedRows(rows) ==
  IF rows = <<>> \/ rows[Len(rows)] # <<>>
    THEN rows
    ELSE TrimmedRows(SubSeq(rows, 1, Len(rows) - 1))

\* values.get: the rows of the addressed tab, trailing empty rows left out.
RemoteValues(range) ==
  LET rows == sheet[AddressedTab(range)]
  IN TrimmedRows([i \in 1..Len(rows) |-> RowText(rows[i])])

----------------------------------------------------------------------------
(* appendToSheet *)

\* const sheetName = range.includes('!') ? range.split('!')[0] : undefined
SheetNameOf(range) ==
  IF range.bang THEN [defined |-> TRUE, name |-> range.tab]
                ELSE [defined |-> FALSE, name |-> ""]

\* if (sheetName): undefined and '' are falsy.
Truthy(sheetName) == sheetName.defined /\ sheetName.name # ""

\* sheetInfo.sheets.find(sheet => sheet.properties.title === sheetName), or
\* sheetInfo.sheets[0]: whether a target sheet comes out.
TargetFound(sheetName, sheets) ==
  IF Truthy(sheetName)
    THEN \E i \in 1..Len(sheets) : sheets[i] = sheetName.name
    ELSE Len(sheets) > 0

\* A bug a rewrite could make: the range is always built from the first tab.
TargetRangeOfFirstTab(sheetName, range, sheets) == Range(TRUE, sheets[1], "A:Z")

\* const targetRange = sheetName ? range : `${targetSheet.properties.title}!A:Z`
TargetRange(sheetName, range, sheets) ==
  IF Truthy(sheetName) THEN range ELSE Range(TRUE, sheets[1], "A:Z")

\* A bug a rewrite could make: the client is built once and kept between
\* invocations.
AppendToSheetKeepingClient(p, range, d, privateKey) ==
  /\ proc[p].pc = "idle"
  /\ calls' = calls + 1
  /\ proc' = [proc EXCEPT ![p] =
       GetAccessToken([IdleProc EXCEPT !.flow = "appendToSheet", !.method = "info",
                                       !.client = p, !.range = range, !.data = d,
                                       !.privateKey = privateKey,
                                       !.seq = calls + 1],
                      accessToken[p], tokenExpiry[p])]
  /\ UNCHANGED <<now, cacheVars, remoteVars, mapperVars>>

\* appendToSheet up to its first suspension: a new client, and
\* client.getSpreadsheetInfo(sheetId) entered.
AppendToSheet(p, range, d, privateKey) ==
  /\ proc[p].pc = "idle"
  /\ calls' = calls + 1
  /\ accessToken' = [accessToken EXCEPT ![p] = NoToken]
  /\ tokenExpiry' = [tokenExpiry EXCEPT ![p] = 0]
  /\ clientKey' = [clientKey EXCEPT ![p] = privateKey]
  /\ proc' = [proc EXCEPT ![p] =
       GetAccessToken([IdleProc EXCEPT !.flow = "appendToSheet", !.method = "info",
                                       !.client = p, !.range = range, !.data = d,
                                       !.privateKey = privateKey,
                                       !.seq = calls + 1],
                      NoToken, 0)]
  /\ UNCHANGED <<now, remoteVars, mapperVars>>

\* appendToSheet from the metadata in hand to its next suspension or its end.
ResolveAndBuild(f, sheets) ==
  LET sheetName == SheetNameOf(f.range)
  IN IF ~TargetFound(sheetName, sheets)
       THEN [f EXCEPT !.pc = "idle", !.result = Thrown("sheet_not_found")]
       ELSE IF IsEmptyBatch(f.data)
         THEN [f EXCEPT !.pc = "idle", !.result = Returned(0, <<>>, 0)]
         ELSE LET columns == Columns(f.data)
              IN GetAccessToken(
                   [f EXCEPT !.values = Values(f.data, columns),
                             !.targetRange = TargetRange(sheetName, f.range, sheets),
                             !.method = "append"],
                   accessToken[f.client], tokenExpiry[f.client])

\* The metadata endpoint answers 2xx.
SheetInfoReceived(p) ==
  /\ proc[p].pc = "wait" /\ proc[p].method = "info"
  /\ proc[p].flow = "appendToSheet"
  /\ proc' = [proc EXCEPT ![p] = ResolveAndBuild(proc[p], tabs)]
  /\ UNCHANGED <<now, cacheVars, remoteVars, calls, mapperVars, handlers>>

\* The metadata endpoint answers non-2xx: getSpreadsheetInfo throws.
SheetInfoFailed(p) ==
  /\ proc[p].pc = "wait" /\ proc[p].method = "info"
  /\ proc[p].flow = "appendToSheet"
  /\ proc' = [proc EXCEPT ![p].pc = "idle", ![p].result = Thrown("not_found")]
  /\ UNCHANGED <<now, cacheVars, remoteVars, calls, mapperVars, handlers>>

\* A bug a rewrite could make: the count is read off the wrong path of the
\* answer, where there is none.
UpdatedRowsOffPath(updates) == 0

\* result.updates?.updatedRows || 0
UpdatedRows(updates) == IF updates.present THEN updates.updatedRows ELSE 0

\* A bug a rewrite could make: the rows are written with values.update, from
\* the first row of the range on.
AppendValuesAsUpdate(p) ==
  /\ proc[p].pc = "wait" /\ proc[p].method = "append"
  /\ Addressable(proc[p].targetRange)
  /\ LET tb == AddressedTab(proc[p].targetRange)
         rows == proc[p].values
         n == IF Len(sheet[tb]) > Len(rows) THEN Len(sheet[tb]) ELSE Len(rows)
     IN /\ sheet' = [sheet EXCEPT ![tb] =
                       [i \in 1..n |-> IF i <= Len(rows) THEN rows[i] ELSE @[i]]]
        /\ proc' = [proc EXCEPT ![p].pc = "idle",
                      ![p].result = Returned(Len(rows), <<>>, 0)]
  /\ UNCHANGED <<now, cacheVars, issued, tabs, calls, mapperVars, handlers>>

\* A bug a rewrite could make: the rows are sent one request each, and the
\* answer to each puts one row on the tab.
AppendValuesRowByRow(p) ==
  /\ proc[p].pc = "wait" /\ proc[p].method = "append"
  /\ Addressable(proc[p].targetRange)
  /\ LET tb == AddressedTab(proc[p].targetRange)
         k == proc[p].result.written + 1
     IN /\ sheet' = [sheet EXCEPT ![tb] = Append(@, proc[p].values[k])]
        /\ proc' = [proc EXCEPT
             ![p].pc = IF k = Len(proc[p].values) THEN "idle" ELSE "wait",
             ![p].result = IF k = Len(proc[p].values)
                             THEN Returned(k, <<>>, 0)
                             ELSE [NoResult EXCEPT !.written = k]]
  /\ UNCHANGED <<now, cacheVars, issued, tabs, calls, mapperVars, handlers>>

\* The append endpoint answers 2xx: the remote has put the rows after the
\* last row of the addressed tab and reports how many, or sends no count.
AppendValuesOk(p) ==
  /\ proc[p].pc = "wait" /\ proc[p].method = "append"
  /\ Addressable(proc[p].targetRange)
  /\ LET tb == AddressedTab(proc[p].targetRange)
     IN /\ sheet' = [sheet EXCEPT ![tb] = @ \o proc[p].values]
        /\ \E updates \in AppendResponses(Len(proc[p].values)) :
             proc' = [proc EXCEPT ![p].pc = "idle", ![p].updates = updates,
                        ![p].result = Returned(UpdatedRows(updates), <<>>, 0)]
  /\ UNCHANGED <<now, cacheVars, issued, tabs, calls, mapperVars, handlers>>

\* The append endpoint answers non-2xx: appendValues throws, nothing written.
AppendValuesFailed(p) ==
  /\ proc[p].pc = "wait" /\ proc[p].method = "append"
  /\ proc' = [proc EXCEPT ![p].pc = "idle", ![p].result = Thrown("append_failed")]
  /\ UNCHANGED <<now, cacheVars, remoteVars, calls, mapperVars, handlers>>

----------------------------------------------------------------------------
(* readFromSheet and getValues *)

\* readFromSheet up to its first suspension: a new client, and
\* client.getValues(sheetId, range) entered.
ReadFromSheet(p, range, format, privateKey) ==
  /\ proc[p].pc = "idle"
  /\ calls' = calls + 1
  /\ accessToken' = [accessToken EXCEPT ![p] = NoToken]
  /\ tokenExpiry' = [tokenExpiry EXCEPT ![p] = 0]
  /\ clientKey' = [clientKey EXCEPT ![p] = privateKey]
  /\ proc' = [proc EXCEPT ![p] =
       GetAccessToken([IdleProc EXCEPT !.flow = "readFromSheet", !.method = "values",
                                       !.client = p, !.range = range,
                                       !.format = format,
                                       !.privateKey = privateKey,
                                       !.seq = calls + 1],
                      NoToken, 0)]
  /\ UNCHANGED <<now, remoteVars, mapperVars>>

\* A bug a rewrite could make: the record is built from the cells of the row.
ZipRecordByRow(header, row) ==
  [j \in 1..Len(row) |->
     [k |-> IF j <= Len(header) THEN header[j] ELSE "", v |-> row[j]]]

\* A row zipped against the header row: a missing trailing cell is the empty
\* string, a cell beyond the header is dropped.
ZipRecord(header, row) ==
  [j \in 1..Len(header) |->
     [k |-> header[j], v |-> IF j <= Len(row) THEN row[j] ELSE ""]]

\* The records of format=objects: one per row after the header row.
ToObjects(rows) ==
  IF rows = <<>> THEN <<>>
  ELSE [i \in 1..(Len(rows) - 1) |-> ZipRecord(rows[1], rows[i + 1])]

\* A bug a rewrite could make: format=objects counts its records.
ReadResultCountingRecords(format, rows) ==
  IF format = "raw" THEN Returned(0, rows, Len(rows))
                    ELSE Returned(0, ToObjects(rows), Len(ToObjects(rows)))

\* The result of readFromSheet for the rows read.
ReadResult(format, rows) ==
  IF format = "raw" THEN Returned(0, rows, Len(rows))
                    ELSE Returned(0, ToObjects(rows), Len(rows))

\* The values endpoint answers 2xx.
ValuesReceived(p) ==
  /\ proc[p].pc = "wait" /\ proc[p].method = "values"
  /\ Addressable(proc[p].range)
  /\ proc' = [proc EXCEPT ![p].pc = "idle",
                ![p].result = ReadResult(proc[p].format, RemoteValues(proc[p].range))]
  /\ UNCHANGED <<now, cacheVars, remoteVars, calls, mapperVars, handlers>>

\* The values endpoint answers non-2xx: getValues throws.
ValuesFailed(p) ==
  /\ proc[p].pc = "wait" /\ proc[p].method = "values"
  /\ proc' = [proc EXCEPT ![p].pc = "idle", ![p].result = Thrown("read_failed")]
  /\ UNCHANGED <<now, cacheVars, remoteVars, calls, mapperVars, handlers>>

----------------------------------------------------------------------------
(* Initial state *)

\* What the remote spreadsheet may hold before the first request.
HeaderAB == <<Str("a"), Str("b")>>

InitialSheets ==
  { [tb \in TabTitles |-> IF tb = "Leads" THEN rows ELSE <<>>] :
      rows \in {<<>>, <<HeaderAB>>} }

\* Every client built with the PEM of a PKCS8 RSA key.
KeysValid == clientKey = [c \in Clients |-> "pkcs8"]

InitBase ==
  /\ now = 0
  /\ accessToken = [c \in Clients |-> NoToken]
  /\ tokenExpiry = [c \in Clients |-> 0]
  /\ proc = [p \in Procs |-> IdleProc]
  /\ issued = <<>>
  /\ calls = 0
  /\ mColumns = <<>> /\ mValues = <<>> /\ mStage = "input"
  /\ handlers = [p \in Procs |-> NoRequest]

\* One client object used by one caller at a time, the clock under control;
\* the client was built with any of the keys.
InitCache ==
  /\ InitBase
  /\ clientKey \in {[c \in Clients |-> IF c = SharedClient THEN k ELSE "pkcs8"] :
                      k \in PrivateKeys}
  /\ mData = <<>>
  /\ tabs = <<"Leads">>
  /\ sheet = [tb \in TabTitles |-> <<>>]

ClientStep(p) ==
  \/ TokenExchangeOk(p)
  \/ TokenExchangeFail(p)
  \/ SendRequest(p)
  \/ InfoReturned(p)

\* No flow is in progress.
AllIdle == \A q \in Procs : proc[q].pc = "idle"

NextCache ==
  \/ \E p \in Procs : AllIdle /\ CallGetSpreadsheetInfo(p)
  \/ \E p \in Procs : ClientStep(p)
  \/ Tick

SpecCache == InitCache /\ [][NextCache]_vars

\* The same client object with callers that overlap.
NextShared ==
  \/ \E p \in Procs : CallGetSpreadsheetInfo(p)
  \/ \E p \in Procs : ClientStep(p)
  \/ Tick

SpecShared == InitCache /\ [][NextShared]_vars

----------------------------------------------------------------------------
(* The flows of the service, one request after another *)

\* The ranges a request may name: a tab the spreadsheet may hold, a tab it
\* does not hold, and no tab.
Ranges ==
  {Range(TRUE, "Leads", "A:Z"), Range(TRUE, "Nope", "A:Z"), Range(FALSE, "", "A:Z")}

Field(k, v) == [k |-> k, v |-> v]

\* The batches a request may carry.
Batches ==
  { <<>>,
    << <<Field("a", Num("1")), Field("b", Num("2"))>> >>,
    << <<Field("b", Num("2"))>> >>,
    << <<Field("b", Num("3")), Field("c", Str("x"))>>,
       <<Field("a", Null), Field("c", Num("4"))>> >> }

Formats == {"objects", "raw"}

InitFlows ==
  /\ InitBase
  /\ KeysValid
  /\ mData = <<>>
  /\ tabs \in {<<>>, <<"Leads">>, <<"Log", "Leads">>}
  /\ sheet \in InitialSheets
  /\ tabs = <<>> => sheet = [tb \in TabTitles |-> <<>>]

FlowStep(p) ==
  \/ TokenExchangeOk(p)
  \/ TokenExchangeFail(p)
  \/ SendRequest(p)
  \/ SheetInfoReceived(p)
  \/ SheetInfoFailed(p)
  \/ AppendValuesOk(p)
  \/ AppendValuesFailed(p)
  \/ ValuesReceived(p)
  \/ ValuesFailed(p)

\* The flow records of the service: one holds the append in progress or the
\* last one made, the other the read.
Appender == "p1"
Reader == "p2"

\* Time passes at a suspension point: an answer a flow awaits comes at once,
\* or takes as long as a token is held.
Awaiting == \E p \in Procs : proc[p].pc \in {"mint", "wait"}

Stall ==
  /\ Awaiting
  /\ now + TokenMarginMs <= MaxTicks * TickMs
  /\ now' = now + TokenMarginMs
  /\ UNCHANGED <<cacheVars, proc, remoteVars, calls, mapperVars, handlers>>

Next ==
  \/ \E range \in Ranges, d \in Batches :
        /\ AllIdle /\ calls < MaxFlows
        /\ AppendToSheet(Appender, range, d, "pkcs8")
        /\ UNCHANGED handlers
  \/ \E range \in Ranges, format \in Formats :
        /\ AllIdle /\ calls < MaxFlows
        /\ ReadFromSheet(Reader, range, format, "pkcs8")
        /\ UNCHANGED handlers
  \/ \E p \in Procs : FlowStep(p)
  \/ Stall

Spec == InitFlows /\ [][Next]_vars

----------------------------------------------------------------------------
(* One append alone, the clock under control *)

\* The ranges of Ranges, and one whose text before the '!' is empty.
AppendRanges == Ranges \cup {Range(TRUE, "", "A:Z")}

AppendStep(p) ==
  \/ TokenExchangeOk(p)
  \/ TokenExchangeFail(p)
  \/ SendRequest(p)
  \/ SheetInfoReceived(p)
  \/ SheetInfoFailed(p)
  \/ AppendValuesOk(p)
  \/ AppendValuesFailed(p)

NextAppend ==
  \/ \E range \in AppendRanges, d \in Batches :
        /\ calls = 0
        /\ AppendToSheet(Appender, range, d, "pkcs8")
        /\ UNCHANGED handlers
  \/ AppendStep(Appender)
  \/ Tick

SpecAppend == InitFlows /\ [][NextAppend]_vars

----------------------------------------------------------------------------
(* One read of a tab, over every content of at most MaxReadRows rows *)

ReadCells == {Str("a"), Str("b")}

StoredRows == UNION {[1..n -> ReadCells] : n \in 0..MaxReadCols}

StoredTabs == UNION {[1..n -> StoredRows] : n \in 0..MaxReadRows}

LeadsRange == Range(TRUE, "Leads", "A:Z")

InitRead ==
  /\ InitBase
  /\ KeysValid
  /\ mData = <<>>
  /\ tabs = <<"Leads">>
  /\ sheet \in {[tb \in TabTitles |-> IF tb = "Leads" THEN rows ELSE <<>>] :
                  rows \in StoredTabs}

NextRead ==
  \/ \E format \in Formats :
        calls = 0 /\ ReadFromSheet(Reader, LeadsRange, format, "pkcs8") /\ UNCHANGED handlers
  \/ TokenExchangeOk(Reader)
  \/ TokenExchangeFail(Reader)
  \/ SendRequest(Reader)
  \/ ValuesReceived(Reader)
  \/ ValuesFailed(Reader)

SpecRead == InitRead /\ [][NextRead]_vars

----------------------------------------------------------------------------
(* Two appends that overlap *)

\* The batch each of the two flows submits: two records, no value in common.
BatchOf(p) ==
  IF p = Appender
    THEN << <<Field("a", Num("1"))>>, <<Field("a", Num("2"))>> >>
    ELSE << <<Field("a", Num("3"))>>, <<Field("a", Num("4"))>> >>

\* Two ways to name the tab Leads of a spreadsheet whose first tab it is.
SameRanges == {LeadsRange, Range(FALSE, "", "A:Z")}

NextConcurrent ==
  \/ \E p \in Procs, range \in SameRanges :
        /\ proc[p].flow = "none"
        /\ AppendToSheet(p, range, BatchOf(p), "pkcs8")
        /\ UNCHANGED handlers
  \/ \E p \in Procs : AppendStep(p)

SpecConcurrent == InitFlows /\ [][NextConcurrent]_vars

----------------------------------------------------------------------------
(* The route handlers *)

\* JSON.parse(env.PROJECTS_CONFIG): one project with one list.
ProjectsConfig == [crm |-> [ranges |-> [leads |-> LeadsRange]]]

ProjectIds == {"crm", "ghost"}
ListNames  == {"leads", "ghost"}

\* A bug a rewrite could make: an unknown project or list gets the first list
\* there is.
ResolveFirstList(projectId, listName) ==
  [found |-> TRUE, error |-> "", range |-> LeadsRange]

\* resolveSheetConfig, with getProjectConfig: the range of the list, or the
\* throw.
ResolveSheetConfig(projectId, listName) ==
  IF projectId \notin DOMAIN ProjectsConfig
    THEN [found |-> FALSE, error |-> "project_not_found", range |-> NoRange]
    ELSE IF listName \notin DOMAIN ProjectsConfig[projectId].ranges
      THEN [found |-> FALSE, error |-> "list_not_found", range |-> NoRange]
      ELSE [found |-> TRUE, error |-> "",
            range |-> ProjectsConfig[projectId].ranges[listName]]

\* error: 'append_failed' in the POST handlers, 'read_failed' in the GET ones.
ErrorCode(route) == IF route = "post" THEN "append_failed" ELSE "read_failed"

\* A bug a rewrite could make: the catch block answers as the success path.
ErrorResponseAsOk(route, result) == [NoResponse EXCEPT !.ok = TRUE, !.status = 200]

\* The catch block: c.json({ok: false, error, detail: errorMessage}, 502);
\* the message is the throw site with the response text it carries.
ErrorResponse(route, result) ==
  [NoResponse EXCEPT !.status = 502, !.error = ErrorCode(route),
                     !.detail = <<result.error, result.detail>>]

\* c.json({ok: true, written}) or c.json({ok: true, data, count})
OkResponse(route, result) ==
  [NoResponse EXCEPT !.ok = TRUE, !.status = 200, !.written = result.written,
                     !.data = result.data, !.count = result.count]

\* The handler entered: its route and the environment it reads.
Received(route, mode, projectId, listName, email, privateKey) ==
  [NoRequest EXCEPT !.route = route, !.mode = mode, !.email = email,
                    !.key = privateKey # Unset, !.privateKey = privateKey,
                    !.projectId = projectId,
                    !.listName = listName, !.stage = "running",
                    !.seq = calls + 1]

\* A line of the log: what console.log was given, the timestamp and the
\* duration left out.
Line(label, value) == [label |-> label, value |-> value]

\* The four console.log calls of resolveSheetConfig, reached when the project
\* and the list are found.
ConfigLog(config, email, privateKey) ==
  IF ~config.found THEN <<>>
  ELSE << Line("range", config.range.tab),
          Line("sheetId", "sheetId"),
          Line("saEmail", IF email THEN "email" ELSE "undefined"),
          Line("saPrivateKey", privateKey) >>

\* The SUCCESS or ERROR line of a handler.
OutcomeLine(result) ==
  IF result.kind = "ok" THEN Line("SUCCESS", "") ELSE Line("ERROR", result.error)

\* A throw before the flow is entered, caught by the handler.
Rejects(p, r, error) ==
  /\ handlers' = [handlers EXCEPT ![p] =
       [r EXCEPT !.stage = "responded",
                 !.log = Append(r.log, OutcomeLine(Thrown(error))),
                 !.response = ErrorResponse(r.route, Thrown(error))]]
  /\ calls' = calls + 1
  /\ UNCHANGED <<now, cacheVars, proc, remoteVars, mapperVars>>

CanReceive(p) == AllIdle /\ calls < MaxFlows /\ handlers[p].stage # "running"

\* The batch a request body carries.
RouteBatches == { << <<Field("a", Num("1")), Field("b", Num("2"))>> >> }

\* POST /:projectId/:listName up to its first suspension or its answer.
\* privateKey.replace throws in appendToSheet when SA_PRIVATE_KEY is not set.
PostProject(p, projectId, listName, email, privateKey, d) ==
  /\ CanReceive(p)
  /\ LET config == ResolveSheetConfig(projectId, listName)
         r == [Received("post", "project", projectId, listName, email, privateKey)
                 EXCEPT !.log = ConfigLog(config, email, privateKey)]
     IN \/ ~config.found /\ Rejects(p, r, config.error)
        \/ config.found /\ privateKey = Unset /\ Rejects(p, r, "type_error")
        \/ /\ config.found /\ privateKey # Unset
           /\ AppendToSheet(p, config.range, d, privateKey)
           /\ handlers' = [handlers EXCEPT ![p] = r]

\* POST /direct/:sheetId/:range up to its first suspension or its answer.
PostDirect(p, range, email, privateKey, d) ==
  /\ CanReceive(p)
  /\ LET r == Received("post", "direct", "", "", email, privateKey)
     IN \/ ~(email /\ privateKey # Unset) /\ Rejects(p, r, "credentials_not_configured")
        \/ /\ email /\ privateKey # Unset
           /\ AppendToSheet(p, range, d, privateKey)
           /\ handlers' = [handlers EXCEPT ![p] = r]

\* GET /:projectId/:listName up to its first suspension or its answer.
GetProject(p, projectId, listName, email, privateKey, format) ==
  /\ CanReceive(p)
  /\ LET config == ResolveSheetConfig(projectId, listName)
         r == [Received("get", "project", projectId, listName, email, privateKey)
                 EXCEPT !.log = ConfigLog(config, email, privateKey)]
     IN \/ ~config.found /\ Rejects(p, r, config.error)
        \/ config.found /\ privateKey = Unset /\ Rejects(p, r, "type_error")
        \/ /\ config.found /\ privateKey # Unset
           /\ ReadFromSheet(p, config.range, format, privateKey)
           /\ handlers' = [handlers EXCEPT ![p] = r]

\* GET /direct/:sheetId/:range up to its first suspension or its answer.
GetDirect(p, range, email, privateKey, format) ==
  /\ CanReceive(p)
  /\ LET r == Received("get", "direct", "", "", email, privateKey)
     IN \/ ~(email /\ privateKey # Unset) /\ Rejects(p, r, "credentials_not_configured")
        \/ /\ email /\ privateKey # Unset
           /\ ReadFromSheet(p, range, format, privateKey)
           /\ handlers' = [handlers EXCEPT ![p] = r]

\* The awaited flow has returned or thrown: the handler answers.
Respond(p) ==
  /\ handlers[p].stage = "running"
  /\ proc[p].pc = "idle"
  /\ handlers' = [handlers EXCEPT ![p].stage = "responded",
       ![p].log = Append(@, OutcomeLine(proc[p].result)),
       ![p].response = IF proc[p].result.kind = "ok"
                         THEN OkResponse(handlers[p].route, proc[p].result)
                         ELSE ErrorResponse(handlers[p].route, proc[p].result)]
  /\ UNCHANGED <<now, cacheVars, proc, remoteVars, calls, mapperVars>>

\* The ranges a direct request names: a tab that is there and one that is
\* not.
RouteRanges == {LeadsRange, Range(TRUE, "Nope", "A:Z")}

\* The format a read request asks for.
RouteFormats == {"objects"}

\* The service deployed against a spreadsheet whose tab Leads holds its header
\* row.
InitRoute ==
  /\ InitBase
  /\ KeysValid
  /\ mData = <<>>
  /\ tabs = <<"Leads">>
  /\ sheet = [tb \in TabTitles |-> IF tb = "Leads" THEN <<HeaderAB>> ELSE <<>>]

NextRoute ==
  \/ \E projectId \in ProjectIds, listName \in ListNames, email \in BOOLEAN, privateKey \in EnvKeys,
         d \in RouteBatches :
        PostProject(Appender, projectId, listName, email, privateKey, d)
  \/ \E range \in RouteRanges, email \in BOOLEAN, privateKey \in EnvKeys, d \in RouteBatches :
        PostDirect(Appender, range, email, privateKey, d)
  \/ \E projectId \in ProjectIds, listName \in ListNames, email \in BOOLEAN, privateKey \in EnvKeys,
         format \in RouteFormats :
        GetProject(Reader, projectId, listName, email, privateKey, format)
  \/ \E range \in RouteRanges, email \in BOOLEAN, privateKey \in EnvKeys, format \in RouteFormats :
        GetDirect(Reader, range, email, privateKey, format)
  \/ \E p \in Procs : FlowStep(p)
  \/ \E p \in Procs : Respond(p)

SpecRoute == InitRoute /\ [][NextRoute]_vars

----------------------------------------------------------------------------
(* appendToSheet, google-spreadsheet version *)

\* const sheet = sheetName
\*   ? doc.sheetsByTitle[sheetName] || doc.sheetsByIndex[0]
\*   : doc.sheetsByIndex[0]
LegacySheet(sheetName, sheets) ==
  IF Truthy(sheetName) /\ \E i \in 1..Len(sheets) : sheets[i] = sheetName.name
    THEN [found |-> TRUE, title |-> sheetName.name]
    ELSE IF Len(sheets) > 0
      THEN [found |-> TRUE, title |-> sheets[1]]
      ELSE [found |-> FALSE, title |-> ""]

\* appendToSheet up to its first suspension: await doc.loadInfo().  The
\* library authenticates its requests itself.
LegacyAppendToSheet(p, range, d) ==
  /\ proc[p].pc = "idle"
  /\ calls' = calls + 1
  /\ proc' = [proc EXCEPT ![p] =
       [IdleProc EXCEPT !.flow = "legacyAppendToSheet", !.method = "loadInfo",
                        !.pc = "wait", !.client = p, !.now = now,
                        !.range = range, !.data = d, !.seq = calls + 1,
                        !.sent = <<Request("loadInfo", NoToken, NoRange, <<>>)>>]]
  /\ UNCHANGED <<now, cacheVars, remoteVars, mapperVars, handlers>>

\* loadInfo resolves: the sheet is picked and sheet.addRows(data) is in
\* flight, or the throw of `if (!sheet)`.
LegacyInfoLoaded(p) ==
  /\ proc[p].pc = "wait" /\ proc[p].method = "loadInfo"
  /\ LET f == proc[p]
         picked == LegacySheet(SheetNameOf(f.range), tabs)
         target == Range(TRUE, picked.title, "")
     IN proc' = [proc EXCEPT ![p] =
          IF ~picked.found
            THEN [f EXCEPT !.pc = "idle", !.result = Thrown("sheet_not_found")]
            ELSE [f EXCEPT !.method = "addRows", !.targetRange = target,
                           !.sent = Append(f.sent,
                                      Request("addRows", NoToken, target, <<>>))]]
  /\ UNCHANGED <<now, cacheVars, remoteVars, calls, mapperVars, handlers>>

\* loadInfo rejects.
LegacyInfoFailed(p) ==
  /\ proc[p].pc = "wait" /\ proc[p].method = "loadInfo"
  /\ proc' = [proc EXCEPT ![p].pc = "idle", ![p].result = Thrown("not_found")]
  /\ UNCHANGED <<now, cacheVars, remoteVars, calls, mapperVars, handlers>>

\* addRows resolves: the library has laid every object out under the header
\* row of the sheet and the remote has put the rows after the last one.
LegacyRowsAdded(p) ==
  /\ proc[p].pc = "wait" /\ proc[p].method = "addRows"
  /\ LET tb == proc[p].targetRange.tab
         d == proc[p].data
     IN /\ Len(sheet[tb]) > 0
        /\ LET header == sheet[tb][1]
               rows == [i \in 1..Len(d) |->
                          [j \in 1..Len(header) |-> Cell(d[i], CellText(header[j]))]]
           IN /\ sheet' = [sheet EXCEPT ![tb] = @ \o rows]
              /\ proc' = [proc EXCEPT ![p].pc = "idle", ![p].values = rows,
                            ![p].result = Returned(Len(rows), <<>>, 0)]
  /\ UNCHANGED <<now, cacheVars, issued, tabs, calls, mapperVars, handlers>>

\* addRows rejects.
LegacyRowsFailed(p) ==
  /\ proc[p].pc = "wait" /\ proc[p].method = "addRows"
  /\ proc' = [proc EXCEPT ![p].pc = "idle", ![p].result = Thrown("append_failed")]
  /\ UNCHANGED <<now, cacheVars, remoteVars, calls, mapperVars, handlers>>

NextLegacy ==
  \/ \E range \in Ranges, d \in Batches :
        calls < MaxFlows /\ LegacyAppendToSheet(Appender, range, d)
  \/ LegacyInfoLoaded(Appender)
  \/ LegacyInfoFailed(Appender)
  \/ LegacyRowsAdded(Appender)
  \/ LegacyRowsFailed(Appender)

SpecLegacy == InitFlows /\ [][NextLegacy]_vars

----------------------------------------------------------------------------
(* Token cache properties *)

\* The flow holds a token that getAccessToken has returned to the method.
HoldsToken(p) == proc[p].pc \in {"token", "wait"}

\* Token exchanges the flow's current invocation has posted.
TokenPosts(p) ==
  Cardinality({i \in DOMAIN proc[p].sent : proc[p].sent[i].kind = "token"})

\* The method call in progress posted an exchange to get its token.
MintedNow(p) ==
  LET s == proc[p].sent
      n == IF proc[p].pc = "wait" THEN Len(s) - 1 ELSE Len(s)
  IN n >= 1 /\ s[n].kind = "token"

\* The token came out of the cache: the method call posted no exchange.
CacheHit(p) == HoldsToken(p) /\ ~MintedNow(p)

\* Exchange i of the token endpoint covers instant t of client c.
Covers(i, c, t) ==
  /\ issued[i].client = c
  /\ issued[i].requestedAt <= t
  /\ t < issued[i].requestedAt + TokenMarginMs

\* C1: on one client used by one caller at a time, once a mint has succeeded
\* every later getToken call made before the stored expiry returns the stored
\* token and posts no exchange, so no second exchange is ever granted inside
\* the 55 minutes that follow the entry instant of a granted one.
C1_TokenReuse ==
  /\ \A p \in Procs :
       /\ proc[p].pc = "mint" =>
            \A i \in DOMAIN issued : ~Covers(i, proc[p].client, proc[p].now)
       /\ CacheHit(p) =>
            /\ proc[p].token # NoToken
            /\ proc[p].token = accessToken[proc[p].client]
            /\ proc[p].token = Len(issued)
  /\ \A i, j \in DOMAIN issued :
       (i < j /\ issued[i].client = issued[j].client) =>
          issued[j].requestedAt >= issued[i].requestedAt + TokenMarginMs

\* A third call is answered from the cache, later than the one mint so far.
C1_Witness ==
  \E p \in Procs :
    /\ CacheHit(p)
    /\ calls = 3
    /\ Len(issued) = 1
    /\ proc[p].now > issued[1].requestedAt

\* C2: on one client used by one caller at a time, a getToken call made at
\* or after the stored expiry posts exactly one exchange, stores the new token
\* with the expiry counted from that call, and returns the new token; no call
\* is ever handed a token whose stored expiry its entry instant has reached,
\* and the calls that follow inside the new margin reuse the new token.
C2_TokenRefresh ==
  \A p \in Procs :
    /\ proc[p].flow = "call" => TokenPosts(p) <= 1
    /\ HoldsToken(p) =>
         /\ proc[p].token = accessToken[proc[p].client]
         /\ proc[p].now < tokenExpiry[proc[p].client]
         /\ Covers(proc[p].token, proc[p].client, proc[p].now)
    /\ (HoldsToken(p) /\ MintedNow(p)) =>
         /\ proc[p].token = Len(issued)
         /\ issued[proc[p].token].requestedAt = proc[p].now
         /\ tokenExpiry[proc[p].client] = proc[p].now + TokenMarginMs
         /\ \A i \in 1..(proc[p].token - 1) :
              proc[p].now >= issued[i].requestedAt + TokenMarginMs

\* After a second mint, a later call is answered with the second token.
C2_Witness ==
  \E p \in Procs :
    /\ CacheHit(p)
    /\ Len(issued) = 2
    /\ proc[p].token = 2
    /\ proc[p].now > issued[2].requestedAt

\* C3: callers that share one client and call getToken while the token is
\* absent or stale share a single in-flight exchange: a client never has two
\* exchanges in flight.
C3_SingleFlight ==
  \A p, q \in Procs :
    (proc[p].pc = "mint" /\ proc[q].pc = "mint"
       /\ proc[p].client = proc[q].client) => p = q

\* C22: getToken never returns a token out of the cache at an instant at or
\* after the mint time of that token plus 55 minutes, the mint time being the
\* entry instant of the call that posted the exchange, however long the
\* exchange took and whichever calls overlapped it: the token was granted to
\* this client by an exchange requested at most 55 minutes before.
C22_CachedTokenInsideMargin ==
  \A p \in Procs :
    CacheHit(p) =>
      /\ proc[p].token \in DOMAIN issued
      /\ issued[proc[p].token].client = proc[p].client
      /\ issued[proc[p].token].requestedAt <= proc[p].now
      /\ proc[p].now < issued[proc[p].token].requestedAt + TokenMarginMs

\* A call is answered from the cache with a token whose exchange was in
\* flight while a later call posted, and was granted, its own: the exchange
\* took time, and the token is served on the last tick of its margin.
C22_Witness ==
  \E p \in Procs :
    /\ CacheHit(p)
    /\ proc[p].token = 2
    /\ issued[2].requestedAt < issued[1].requestedAt
    /\ proc[p].now = issued[2].requestedAt + 4 * TickMs

\* The mint of the call of p has failed.
MintFailed(p) ==
  /\ proc[p].flow = "call"
  /\ proc[p].pc = "idle"
  /\ proc[p].result.error \in {"key_invalid", "token_exchange_failed"}

\* The cache of client c holds no token it would serve at instant t.
StaleOrEmpty(c, t) == ~(accessToken[c] # NoToken /\ t < tokenExpiry[c])

\* A step in which a call enters its mint or fails it leaves the stored
\* token and the stored expiry as they were.
FailedMintKeepsCache ==
  \A p \in Procs :
    (proc'[p] # proc[p] /\ (proc'[p].pc = "mint" \/ (MintFailed(p))')) =>
      accessToken' = accessToken /\ tokenExpiry' = tokenExpiry

\* A call entered on a stale or empty cache goes to a mint of its own: its
\* exchange is posted, or its key fails to import once more.
StaleCallMints ==
  \A p \in Procs :
    (proc'[p].seq # proc[p].seq /\ StaleOrEmpty(SharedClient, now)) =>
      \/ proc'[p].pc = "mint" /\ TokenPosts(p)' = 1
      \/ (MintFailed(p))' /\ proc'[p].result.error = "key_invalid"
                          /\ ~(clientKey[SharedClient] = "pkcs8")

\* C25: a getToken call whose mint fails, by an invalid key or a non-2xx
\* exchange, leaves the stored token and the stored expiry exactly as they
\* were before the call, and the next getToken call on a stale or empty cache
\* attempts a new mint: no call is handed a token that no exchange granted.
C25_FailedMintKeepsCache ==
  /\ [](\A p \in Procs :
         (proc[p].flow = "call" /\ HoldsToken(p)) => proc[p].token \in DOMAIN issued)
  /\ [][FailedMintKeepsCache /\ StaleCallMints]_vars

\* A call has posted its exchange on a cache that still holds the token and
\* the expiry of the one grant, after the call before it was refused its
\* exchange on the same stale cache.
C25_Witness ==
  \E p, q \in Procs :
    /\ proc[p].pc = "mint"
    /\ MintFailed(q)
    /\ proc[q].seq = proc[p].seq - 1
    /\ proc[q].result.error = "token_exchange_failed"
    /\ Len(issued) = 1
    /\ accessToken[SharedClient] = 1
    /\ tokenExpiry[SharedClient] = issued[1].requestedAt + TokenMarginMs
    /\ proc[q].now >= tokenExpiry[SharedClient]

\* C26: in every reachable state of a client, also with getToken calls that
\* overlap, the stored token and the stored expiry come from one mint: when a
\* token is stored it was granted to this client, and the stored expiry is
\* the entry instant of the call whose exchange produced it plus 55 minutes;
\* when no token is stored the expiry is 0.
C26_TokenAndExpiryOfOneMint ==
  \A c \in Clients :
    IF accessToken[c] = NoToken
      THEN tokenExpiry[c] = 0
      ELSE /\ accessToken[c] \in DOMAIN issued
           /\ issued[accessToken[c]].client = c
           /\ tokenExpiry[c] = issued[accessToken[c]].requestedAt + 55 * 60 * 1000

\* Two calls overlapped and the one that entered first was granted its token
\* last, after time had passed: the cache holds its token, and the stored
\* expiry has gone back to its entry instant plus the margin.
C26_Witness ==
  /\ Len(issued) = 2
  /\ accessToken[SharedClient] = 2
  /\ issued[2].requestedAt < issued[1].requestedAt
  /\ tokenExpiry[SharedClient] < issued[1].requestedAt + TokenMarginMs
  /\ now > issued[1].requestedAt

----------------------------------------------------------------------------
(* Properties of the append and read flows *)

IsFlow(p) == proc[p].flow \in {"appendToSheet", "readFromSheet"}

\* The kinds of the requests a flow has sent, in order.
SentKinds(p) == [i \in DOMAIN proc[p].sent |-> proc[p].sent[i].kind]

\* C4: in every append or read flow, each request to the Sheets API is sent
\* after getAccessToken has returned a token in that same flow: an exchange
\* posted earlier in the flow was granted to the flow's own client, and the
\* request carries the token of that grant as its bearer; the request in
\* flight carries the token the flow holds.
C4_TokenBeforeCall ==
  \A p \in Procs : IsFlow(p) =>
    /\ \A i \in DOMAIN proc[p].sent :
         proc[p].sent[i].kind # "token" =>
           LET b == proc[p].sent[i].bearer
           IN /\ b # NoToken
              /\ b \in DOMAIN issued
              /\ issued[b].client = proc[p].client
              /\ issued[b].flow = proc[p].seq
              /\ \E j \in 1..(i - 1) : proc[p].sent[j].kind = "token"
    /\ proc[p].pc = "wait" =>
         /\ proc[p].sent[Len(proc[p].sent)].kind # "token"
         /\ proc[p].sent[Len(proc[p].sent)].bearer = proc[p].token
         /\ proc[p].token = accessToken[proc[p].client]

\* An append flow whose token went stale while the metadata was fetched has
\* sent its append request with the token of a second exchange.
C4_Witness ==
  \E p \in Procs :
    /\ proc[p].flow = "appendToSheet"
    /\ proc[p].pc = "wait"
    /\ SentKinds(p) = <<"token", "info", "token", "append">>
    /\ proc[p].sent[4].bearer # proc[p].sent[2].bearer

\* An append flow that was handed the empty batch.
EmptyAppend(p) == proc[p].flow = "appendToSheet" /\ proc[p].data = <<>>

\* C7 as claimed: appendRecords with an empty batch returns {written: 0} and
\* calls no SheetClient operation: it sends no request at all.
C7_NoClientCallAsClaimed ==
  \A p \in Procs : EmptyAppend(p) =>
    /\ proc[p].sent = <<>>
    /\ proc[p].pc = "idle" =>
         proc[p].result.kind = "ok" /\ proc[p].result.written = 0

\* C7: appendRecords with an empty batch never sends an append request and
\* writes nothing; it first gets a token and fetches the metadata, and it
\* returns {written: 0} exactly when the fetch succeeds and the tab resolves,
\* and fails with the token, metadata or missing-tab error otherwise.
C7_EmptyBatch ==
  \A p \in Procs : EmptyAppend(p) =>
    /\ \A i \in DOMAIN proc[p].sent : proc[p].sent[i].kind \in {"token", "info"}
    /\ Len(proc[p].sent) <= 2
    /\ proc[p].values = <<>>
    /\ proc[p].pc = "idle" =>
         /\ proc[p].result.kind = "ok" =>
              /\ proc[p].result.written = 0
              /\ SentKinds(p) = <<"token", "info">>
              /\ TargetFound(SheetNameOf(proc[p].range), tabs)
         /\ proc[p].result.kind = "error" =>
              proc[p].result.error \in
                {"token_exchange_failed", "not_found", "sheet_not_found"}
         /\ proc[p].result.error = "sheet_not_found" =>
              ~TargetFound(SheetNameOf(proc[p].range), tabs)

\* An append of the empty batch has returned {written: 0} after its metadata
\* fetch.
C7_Witness ==
  \E p \in Procs :
    /\ EmptyAppend(p)
    /\ proc[p].pc = "idle"
    /\ proc[p].result.kind = "ok"
    /\ proc[p].result.written = 0
    /\ SentKinds(p) = <<"token", "info">>

\* An append flow of either version.
IsAppend(p) == proc[p].flow \in {"appendToSheet", "legacyAppendToSheet"}

\* The range of the flow names a tab the spreadsheet does not hold.
MissingTab(p) ==
  proc[p].range.bang /\ proc[p].range.tab # "" /\ ~HasTab(proc[p].range.tab)

\* C8: appendRecords with a range that names a tab the spreadsheet does not
\* hold fails, sends no append request, and never puts another tab in place of
\* the missing one, whatever the batch.
C8_MissingTabFails ==
  \A p \in Procs : (IsAppend(p) /\ MissingTab(p)) =>
    /\ \A i \in DOMAIN proc[p].sent : proc[p].sent[i].kind \notin {"append", "addRows"}
    /\ proc[p].targetRange = NoRange
    /\ proc[p].pc = "idle" => proc[p].result.kind = "error"

\* The last append has succeeded and the remote holds its rows.
Appended(p) ==
  /\ proc[p].flow = "appendToSheet"
  /\ proc[p].pc = "idle"
  /\ proc[p].result.kind = "ok"
  /\ proc[p].data # <<>>

\* Row i of the rows the last append of p put on its tab.
AppendedRow(p, i) ==
  LET rows == sheet[AddressedTab(proc[p].targetRange)]
  IN rows[Len(rows) - Len(proc[p].values) + i]

\* The tab held a header row before the last append of p.
HadHeader(p) ==
  Len(sheet[AddressedTab(proc[p].targetRange)]) > Len(proc[p].values)

HeaderOf(p) == sheet[AddressedTab(proc[p].targetRange)][1]

CellAt(row, j) == IF j <= Len(row) THEN row[j] ELSE EmptyString

\* C9: on append, when the first row of the addressed range holds headers,
\* each field value of a record is written into the column whose header
\* equals the field name.
C9_HeaderDecidesColumn ==
  \A p \in Procs : (Appended(p) /\ HadHeader(p)) =>
    \A i \in 1..Len(proc[p].data) :
      \A j \in 1..Len(HeaderOf(p)) :
        HasField(proc[p].data[i], CellText(HeaderOf(p)[j])) =>
          CellAt(AppendedRow(p, i), j) = Cell(proc[p].data[i], CellText(HeaderOf(p)[j]))

\* The string a field value reads back as.
AsString(v) == IF v = Null THEN "" ELSE v.s

\* Record rec, as read, carries every field of item with its value as string.
Reproduces(rec, item) ==
  \A f \in 1..Len(item) :
    \E g \in 1..Len(rec) : rec[g].k = item[f].k /\ rec[g].v = AsString(item[f].v)

\* C10: after appendRecords succeeds for a batch on a range, readRecords on
\* the same range with format=objects returns, for every record of the batch,
\* a record whose fields carry the original field values as strings.
C10_RoundTrip ==
  (/\ Appended(Appender)
   /\ proc[Reader].flow = "readFromSheet"
   /\ proc[Reader].seq = proc[Appender].seq + 1
   /\ proc[Reader].pc = "idle"
   /\ proc[Reader].result.kind = "ok"
   /\ proc[Reader].format = "objects"
   /\ proc[Reader].range = proc[Appender].range)
  => \A i \in 1..Len(proc[Appender].data) :
       \E r \in 1..Len(proc[Reader].result.data) :
         Reproduces(proc[Reader].result.data[r], proc[Appender].data[i])

\* Requests of the given kind the flow has sent.
SentOf(p, kind) ==
  Cardinality({i \in DOMAIN proc[p].sent : proc[p].sent[i].kind = kind})

\* The kind of the last request the flow has sent.
LastSent(p) == proc[p].sent[Len(proc[p].sent)].kind

\* The endpoint whose refusal gives the error.
RefusedBy(error) ==
  CASE error = "token_exchange_failed" -> "token"
    [] error = "not_found"             -> "info"
    [] error = "append_failed"         -> "append"
    [] error = "read_failed"           -> "values"
    [] OTHER                           -> "none"

\* A refusal ends the flow: the refused request is the last one it sent.
EndsAtRefusal(p) ==
  (proc[p].result.kind = "error" /\ RefusedBy(proc[p].result.error) # "none") =>
    /\ proc[p].pc = "idle"
    /\ LastSent(p) = RefusedBy(proc[p].result.error)

\* C14 as claimed: in one append or read flow each of the four endpoints is
\* requested at most once, and the first refusal ends the flow.
C14_OncePerEndpointAsClaimed ==
  \A p \in Procs : IsFlow(p) =>
    /\ \A kind \in {"token", "info", "values", "append"} : SentOf(p, kind) <= 1
    /\ EndsAtRefusal(p)

\* C14: no remote call is retried: the metadata, values-get and
\* values-append endpoints are each requested at most once in a flow and no
\* request follows one of its own kind; the token endpoint is requested once,
\* and once more only in an append flow whose token has reached its expiry
\* when the append call begins; the first refusal ends the flow with an error
\* and no further request.
C14_NoRetry ==
  \A p \in Procs : IsFlow(p) =>
    /\ \A kind \in {"info", "values", "append"} : SentOf(p, kind) <= 1
    /\ \A i \in 1..(Len(proc[p].sent) - 1) :
         proc[p].sent[i].kind # proc[p].sent[i + 1].kind
    /\ SentOf(p, "token") <= 2
    /\ SentOf(p, "token") = 2 =>
         /\ proc[p].flow = "appendToSheet"
         /\ SentOf(p, "info") = 1
         /\ proc[p].now >=
              issued[proc[p].sent[2].bearer].requestedAt + TokenMarginMs
    /\ EndsAtRefusal(p)

\* An append flow that minted twice has ended at the refusal of its append
\* request.
C14_Witness ==
  \E p \in Procs :
    /\ proc[p].flow = "appendToSheet"
    /\ proc[p].pc = "idle"
    /\ proc[p].result.error = "append_failed"
    /\ SentKinds(p) = <<"token", "info", "token", "append">>

\* The append request of the flow is being answered in this step.
AppendAnswered(p) ==
  /\ proc[p].flow = "appendToSheet"
  /\ proc[p].pc = "wait" /\ proc[p].method = "append"
  /\ proc'[p].pc = "idle"

\* The rows of the whole batch of the flow.
BatchRows(p) == Values(proc[p].data, Columns(proc[p].data))

\* A refused append request returns the append error and writes nothing.
RefusalWritesNothing ==
  \A p \in Procs :
    (AppendAnswered(p) /\ proc'[p].result.kind = "error") =>
      /\ sheet' = sheet
      /\ proc'[p].result.error = "append_failed"

\* The sheet changes by the rows of the whole batch of an append that succeeds.
WritesWholeBatch ==
  sheet' # sheet =>
    \E p \in Procs :
      /\ AppendAnswered(p)
      /\ proc'[p].result.kind = "ok"
      /\ sheet' = [sheet EXCEPT ![AddressedTab(proc[p].targetRange)] =
                      @ \o BatchRows(p)]

\* C15: batch append is all-or-nothing: the rows of the whole batch go out
\* in a single append request, a refused append request returns an error and
\* leaves the sheet as it was, and the sheet never changes but by the rows of
\* a whole batch.
C15_AllOrNothing ==
  /\ [](\A p \in Procs :
          (proc[p].flow = "appendToSheet" /\ SentOf(p, "append") > 0) =>
            /\ SentOf(p, "append") = 1
            /\ LastSent(p) = "append"
            /\ Len(proc[p].sent[Len(proc[p].sent)].values) = Len(proc[p].data)
            /\ proc[p].sent[Len(proc[p].sent)].values = BatchRows(p))
  /\ [][RefusalWritesNothing /\ WritesWholeBatch]_vars

\* The append request of a batch of two records has been refused and the tab
\* holds its header row alone, as before.
C15_Witness ==
  \E p \in Procs :
    /\ proc[p].flow = "appendToSheet"
    /\ proc[p].pc = "idle"
    /\ proc[p].result.error = "append_failed"
    /\ Len(proc[p].data) = 2
    /\ Len(proc[p].sent[Len(proc[p].sent)].values) = 2
    /\ calls = 1
    /\ sheet["Leads"] = <<HeaderAB>>

\* A flow leaves its exchange without a grant only by the throw.
RefusedExchangeEndsFlow ==
  \A p \in Procs :
    (/\ IsFlow(p)
     /\ proc[p].pc = "mint" /\ proc'[p].pc # "mint"
     /\ issued' = issued) =>
      /\ proc'[p].pc = "idle"
      /\ proc'[p].result.error = "token_exchange_failed"
      /\ proc'[p].sent = proc[p].sent
      /\ accessToken' = accessToken

\* C16: when the token endpoint answers a mint with a non-2xx response,
\* getToken fails with the token-exchange error whose detail is the body of
\* the response as received, no token is returned, and the flow ends without
\* a request to the Sheets API after it.
C16_ExchangeRefused ==
  /\ [](\A p \in Procs :
          (IsFlow(p) /\ proc[p].result.error = "token_exchange_failed") =>
            /\ proc[p].pc = "idle"
            /\ proc[p].body \in Bodies
            /\ proc[p].result.detail = proc[p].body
            /\ proc[p].token = NoToken
            /\ LastSent(p) = "token")
  /\ [][RefusedExchangeEndsFlow]_vars

\* The first exchange of a flow has been refused with the body invalid_grant.
C16_Witness ==
  \E p \in Procs :
    /\ IsFlow(p)
    /\ proc[p].pc = "idle"
    /\ proc[p].result.error = "token_exchange_failed"
    /\ proc[p].result.detail = "invalid_grant"
    /\ SentKinds(p) = <<"token">>

\* Every row of every tab stays where it was, unchanged.
RowsStay ==
  \A tb \in TabTitles :
    /\ Len(sheet'[tb]) >= Len(sheet[tb])
    /\ \A i \in 1..Len(sheet[tb]) : sheet'[tb][i] = sheet[tb][i]

\* A successful append puts the rows of its batch after the last row of its
\* tab and touches no other tab.
AppendAddsBatch ==
  \A p \in Procs :
    (AppendAnswered(p) /\ proc'[p].result.kind = "ok") =>
      LET tb == AddressedTab(proc[p].targetRange)
      IN /\ Len(sheet'[tb]) = Len(sheet[tb]) + Len(proc[p].data)
         /\ \A i \in 1..Len(proc[p].data) :
              sheet'[tb][Len(sheet[tb]) + i] =
                Row(proc[p].data[i], Columns(proc[p].data))
         /\ \A other \in TabTitles \ {tb} : sheet'[other] = sheet[other]

\* C17: append only adds rows: in every step every row of every tab stays
\* where it was, unchanged, and a successful append puts exactly the rows of
\* its batch after the last row of its tab.
C17_AppendOnlyAdds == [][RowsStay /\ AppendAddsBatch]_vars

\* A second append has put its rows after the header row and the rows of the
\* first.
C17_Witness ==
  /\ calls = 2
  /\ Appended(Appender)
  /\ proc[Appender].seq = 2
  /\ Len(sheet["Leads"]) > 1 + Len(proc[Appender].data)
  /\ sheet["Leads"][1] = HeaderAB
  /\ AppendedRow(Appender, 1) = Row(proc[Appender].data[1], Columns(proc[Appender].data))

\* C20: a successful appendRecords returns as written the updatedRows count
\* of the append answer, and 0 when the answer carries no count; the count
\* of a remote that reports what it wrote is the number of records.
C20_WrittenIsUpdatedRows ==
  \A p \in Procs : Appended(p) =>
    /\ proc[p].updates.present =>
         /\ proc[p].result.written = proc[p].updates.updatedRows
         /\ proc[p].result.written = Len(proc[p].data)
    /\ ~proc[p].updates.present => proc[p].result.written = 0

\* An append of two records has returned written: 2.
C20_Witness ==
  \E p \in Procs :
    /\ Appended(p)
    /\ proc[p].updates.present
    /\ Len(proc[p].data) = 2
    /\ proc[p].result.written = 2

----------------------------------------------------------------------------
(* Properties of the read path *)

\* The read of p has returned in the given format.
HasRead(p, format) ==
  /\ proc[p].flow = "readFromSheet"
  /\ proc[p].pc = "idle"
  /\ proc[p].result.kind = "ok"
  /\ proc[p].format = format

\* The rows the remote holds for the range of p.
RowsOf(p) == RemoteValues(proc[p].range)

\* C11: readRecords with format=objects takes the first row as the header
\* and returns one record per later row, in row order; the keys of a record
\* are the header names in header order, the value under a header is the
\* cell of the row at the header's place or the empty string when the row is
\* shorter, cells past the header are dropped, and the header row is no
\* record.
C11_ObjectsByHeader ==
  \A p \in Procs : HasRead(p, "objects") =>
    LET rows == RowsOf(p)
        recs == proc[p].result.data
    IN IF rows = <<>> THEN recs = <<>>
       ELSE /\ Len(recs) = Len(rows) - 1
            /\ \A i \in 1..Len(recs) :
                 /\ Len(recs[i]) = Len(rows[1])
                 /\ \A j \in 1..Len(rows[1]) :
                      /\ recs[i][j].k = rows[1][j]
                      /\ j <= Len(rows[i + 1]) => recs[i][j].v = rows[i + 1][j]
                      /\ j > Len(rows[i + 1]) => recs[i][j].v = ""

\* Under the header [a], the empty row and the row [b, a] have been read as
\* {a: ""} and {a: "b"}.
C11_Witness ==
  /\ HasRead(Reader, "objects")
  /\ RowsOf(Reader) = << <<"a">>, <<>>, <<"b", "a">> >>
  /\ proc[Reader].result.data =
       << <<[k |-> "a", v |-> ""]>>, <<[k |-> "a", v |-> "b"]>> >>

StartOf(p) == proc[p].sent[1].assertion.iat * 1000

\* The step in which the append of p returns from its append request.
AppendCompletes(p) ==
  /\ proc[p].flow = "appendToSheet"
  /\ proc[p].pc = "wait" /\ proc[p].method = "append"
  /\ proc'[p].pc = "idle" /\ proc'[p].result.kind = "ok"

\* The tokens granted to the flow of p.
GrantedTo(p) == {k \in DOMAIN issued : issued[k].flow = proc[p].seq}

\* An append that succeeds in under 55 minutes has posted one exchange, then
\* fetched the metadata, then sent the append, both with the token of that
\* exchange.
QuickAppendMintsOnce ==
  \A p \in Procs :
    (AppendCompletes(p) /\ now - StartOf(p) < 55 * 60 * 1000) =>
      /\ SentKinds(p) = <<"token", "info", "append">>
      /\ Cardinality(GrantedTo(p)) = 1
      /\ proc[p].sent[2].bearer \in GrantedTo(p)
      /\ proc[p].sent[3].bearer = proc[p].sent[2].bearer

\* C27: every appendToSheet invocation starts with a token cache of its own
\* that is empty, so the first thing it sends is a token exchange, whatever
\* an earlier invocation was granted; and when it runs to a successful append
\* of a non-empty batch in under 55 minutes it makes exactly one token
\* exchange, then one metadata fetch, then one append request, in that order,
\* the append with the token minted for the metadata fetch.
C27_OneMintPerAppend ==
  /\ [](\A p \in Procs :
         (proc[p].flow = "appendToSheet" /\ proc[p].sent # <<>>) =>
            /\ proc[p].sent[1].kind = "token"
            /\ \A i \in DOMAIN proc[p].sent :
                 proc[p].sent[i].kind # "token" =>
                   proc[p].sent[i].bearer \in GrantedTo(p))
  /\ [][QuickAppendMintsOnce]_vars

\* The second append on a slot has succeeded at once, with a token of its
\* own, while the token granted to the first was still inside its margin.
C27_Witness ==
  \E p \in Procs :
    /\ Appended(p)
    /\ proc[p].seq = 2
    /\ Len(issued) = 2
    /\ issued[1].client = p /\ issued[2].client = p
    /\ issued[2].requestedAt < issued[1].requestedAt + TokenMarginMs
    /\ SentKinds(p) = <<"token", "info", "append">>
    /\ proc[p].sent[3].bearer = 2

----------------------------------------------------------------------------
(* Properties of one append *)

\* The range names a tab: there is text before its '!'.
NamesTab(range) == range.bang /\ range.tab # ""

\* The metadata came back and the flow went on from it.
PastMetadata(p) ==
  /\ SentOf(p, "info") = 1
  /\ proc[p].pc = "idle"
  /\ proc[p].result.error \notin {"token_exchange_failed", "not_found"}

\* C21: the range of the append request is the range of the caller unchanged
\* when that names a tab, and otherwise the title of the first tab of the
\* metadata followed by "!A:Z"; with no tab named and no tab in the
\* spreadsheet the flow fails with sheet_not_found and sends no append
\* request.
C21_RangeSent ==
  \A p \in Procs : proc[p].flow = "appendToSheet" =>
    /\ \A i \in DOMAIN proc[p].sent :
         proc[p].sent[i].kind = "append" =>
           proc[p].sent[i].range =
             (IF NamesTab(proc[p].range) THEN proc[p].range
                                        ELSE Range(TRUE, tabs[1], "A:Z"))
    /\ ~NamesTab(proc[p].range) /\ tabs = <<>> =>
         /\ SentOf(p, "append") = 0
         /\ PastMetadata(p) => proc[p].result = Thrown("sheet_not_found")

\* An append request sent for a range that starts with the '!', to a
\* spreadsheet whose first tab is not the one the service is used with.
C21_Witness ==
  \E p \in Procs :
    /\ proc[p].flow = "appendToSheet"
    /\ proc[p].range.bang /\ ~NamesTab(proc[p].range)
    /\ tabs = <<"Log", "Leads">>
    /\ SentOf(p, "append") = 1

\* The exchange posts of flow p, by their place in what it sent.
TokenPostsOf(p) == {i \in DOMAIN proc[p].sent : proc[p].sent[i].kind = "token"}

\* C23: every token mint builds its assertion at mint time, with iat the
\* current time in whole seconds and exp = iat + 3600, and posts it once: the
\* exchange in flight carries the assertion of the instant the mint began and
\* follows no other post of the same mint, and no two posts of a flow carry
\* the same assertion.
C23_FreshAssertion ==
  \A p \in Procs :
    /\ \A i \in TokenPostsOf(p) :
         proc[p].sent[i].assertion.exp = proc[p].sent[i].assertion.iat + 3600
    /\ \A i, j \in TokenPostsOf(p) :
         i < j => proc[p].sent[i].assertion.iat < proc[p].sent[j].assertion.iat
    /\ proc[p].pc = "mint" =>
         LET n == Len(proc[p].sent)
         IN /\ n \in TokenPostsOf(p)
            /\ proc[p].sent[n].assertion.iat = proc[p].now \div 1000
            /\ n - 1 \notin TokenPostsOf(p)

\* A flow that began after the clock had advanced is in its second mint.
C23_Witness ==
  \E p \in Procs :
    /\ proc[p].pc = "mint"
    /\ Cardinality(TokenPostsOf(p)) = 2
    /\ proc[p].sent[1].assertion.iat > 0

\* The rows of the batch of p lie on the tab it addressed one after the
\* other, in the order of its records.
Contiguous(p) ==
  LET rows == sheet[AddressedTab(proc[p].targetRange)]
      n == Len(proc[p].data)
  IN \E k \in 0..(Len(rows) - n) :
       \A i \in 1..n : rows[k + i] = <<proc[p].data[i][1].v>>

\* C28: when two append flows run at the same time, the rows of each batch
\* end up on the tab one after the other and in the order of the records of
\* that batch, whichever batch is applied first; rows of the two batches
\* never interleave.
C28_BatchesContiguous ==
  \A p \in Procs : Appended(p) => Contiguous(p)

\* Both flows addressed the same tab and have appended; the flow that began
\* last was applied first.
C28_Witness ==
  /\ Appended(Appender) /\ Appended(Reader)
  /\ proc[Appender].seq < proc[Reader].seq
  /\ sheet["Leads"] = <<HeaderAB, <<Num("3")>>, <<Num("4")>>, <<Num("1")>>, <<Num("2")>> >>

----------------------------------------------------------------------------
(* Properties of the route handlers *)

\* The handler of slot p has answered its request.
Handled(p) == handlers[p].stage = "responded"

\* The request of slot p entered appendToSheet or readFromSheet.
EnteredFlow(p) == handlers[p].stage # "none" /\ proc[p].seq = handlers[p].seq

\* The request of slot p names a project or a list the configuration lacks.
UnknownList(p) ==
  /\ handlers[p].mode = "project"
  /\ ~(handlers[p].projectId = "crm" /\ handlers[p].listName = "leads")

\* A step that takes in a request for an unknown project or list touches
\* neither the token cache, nor a flow, nor the remote.
UnknownListTouchesNothing ==
  \A p \in Procs :
    (UnknownList(p))' /\ handlers'[p] # handlers[p] =>
      UNCHANGED <<cacheVars, proc, remoteVars>>

SheetErrors == {"sheet_not_found", "not_found", "read_failed", "append_failed"}

\* Every throw site of the handlers and the flows.
ThrowSites ==
  SheetErrors \cup {"project_not_found", "list_not_found", "type_error",
                    "credentials_not_configured", "token_exchange_failed",
                    "key_invalid"}

\* The answer to an error, as the handlers give it: the error code of the
\* route, whatever was thrown.
AnswersError(p) ==
  /\ ~handlers[p].response.ok
  /\ handlers[p].response.status = 502
  /\ handlers[p].response.error =
       (IF handlers[p].route = "post" THEN "append_failed" ELSE "read_failed")
  /\ Len(handlers[p].response.detail) = 2
  /\ handlers[p].response.detail[1] \in ThrowSites
  /\ EnteredFlow(p) =>
       handlers[p].response.detail = <<proc[p].result.error, proc[p].result.detail>>

\* C13 as stated: the kind of an error answer identifies the class of the
\* error, so it is a kind of the sheet class only for an error of that class.
C13_KindIdentifiesClassAsClaimed ==
  \A p \in Procs :
    Handled(p) /\ ~handlers[p].response.ok =>
      /\ handlers[p].response.status = 502
      /\ handlers[p].response.error \in SheetErrors
           <=> handlers[p].response.detail[1] \in SheetErrors

\* C13: every error raised in a request, before or inside the append or read
\* flow, is caught by the handler and answered with ok=false, status 502, the
\* error code of the route (append_failed for POST, read_failed for GET,
\* whatever the class of the error) and the message of the error as detail;
\* ok=true is answered exactly when the flow returned.
C13_ErrorsCaught ==
  \A p \in Procs :
    Handled(p) =>
      IF EnteredFlow(p) /\ proc[p].result.kind = "ok"
        THEN handlers[p].response.ok /\ handlers[p].response.status = 200
        ELSE AnswersError(p)

\* A refused token exchange in an append, a read of a tab that is not there
\* answered as well.
C13_Witness ==
  /\ Handled(Appender) /\ EnteredFlow(Appender)
  /\ handlers[Appender].response.detail = <<"token_exchange_failed", "invalid_grant">>
  /\ Handled(Reader)
  /\ ~handlers[Reader].response.ok

\* The request of slot p came in with SA_EMAIL or SA_PRIVATE_KEY not set.
MissingCredential(p) ==
  handlers[p].stage # "none" /\ ~(handlers[p].email /\ handlers[p].key)

\* C19: a request, project-mode or direct, that finds the service-account
\* email or the private key missing is answered as a configuration error and
\* never enters a flow, so no token is minted and no Sheets request is made.
C19_MissingCredentialFailsFirst ==
  \A p \in Procs :
    MissingCredential(p) /\ ~UnknownList(p) =>
      /\ Handled(p)
      /\ ~handlers[p].response.ok
      /\ handlers[p].response.detail[1] = "credentials_not_configured"
      /\ ~EnteredFlow(p)

\* The request of slot p came in with a private key that is set and is not
\* the PEM of a PKCS8 RSA key.
InvalidKey(p) ==
  handlers[p].stage # "none" /\ handlers[p].privateKey \in {"not_rsa", "not_base64"}

\* C24: with a private key that does not decode to a valid PKCS8 RSA key the
\* mint fails with key_invalid before any request is sent to the token
\* endpoint, and the flow sends no Sheets request either: a flow entered with
\* such a key has ended with that error and has sent nothing, and no token
\* was granted to it.
C24_InvalidKeyFailsMint ==
  \A p \in Procs :
    InvalidKey(p) /\ EnteredFlow(p) =>
      /\ proc[p].sent = <<>>
      /\ proc[p].pc = "idle"
      /\ proc[p].result = Thrown("key_invalid")
      /\ \A k \in DOMAIN issued : issued[k].flow # proc[p].seq
      /\ Handled(p) => ~handlers[p].response.ok

\* A direct append with a key that is no RSA key and a project-mode read
\* with a key that is no base64 have both been answered.
C24_Witness ==
  /\ InvalidKey(Appender) /\ EnteredFlow(Appender) /\ Handled(Appender)
  /\ handlers[Appender].mode = "direct"
  /\ handlers[Appender].privateKey = "not_rsa"
  /\ InvalidKey(Reader) /\ EnteredFlow(Reader) /\ Handled(Reader)
  /\ handlers[Reader].mode = "project"
  /\ handlers[Reader].privateKey = "not_base64"

\* C30: the log of a request does not depend on the private key: no line a
\* handler writes, in project mode or direct, holds the value of
\* SA_PRIVATE_KEY.
C30_KeyNotLogged ==
  \A p \in Procs :
    \A i \in DOMAIN handlers[p].log :
      handlers[p].log[i].value # handlers[p].privateKey

----------------------------------------------------------------------------
(* The row mapper alone, over every batch of at most MaxRecords records *)

InitMapper ==
  /\ InitBase
  /\ KeysValid
  /\ tabs = <<"Leads">>
  /\ sheet = [tb \in TabTitles |-> <<>>]
  /\ mData \in AllBatches

\* appendToSheet from `if (data.length === 0)` to `const values`.
BuildRows ==
  /\ mStage = "input"
  /\ ~IsEmptyBatch(mData)
  /\ mColumns' = Columns(mData)
  /\ mValues' = Values(mData, mColumns')
  /\ mStage' = "built"
  /\ UNCHANGED <<now, cacheVars, proc, remoteVars, calls, mData, handlers>>

SpecMapper == InitMapper /\ [][BuildRows]_vars

\* Key k occurs in record i of the batch.
Occurs(d, k, i) == HasField(d[i], k)

\* The first record of the batch that holds key k, and k's place in it.
FirstRecord(d, k) ==
  CHOOSE i \in 1..Len(d) : Occurs(d, k, i) /\ \A h \in 1..(i - 1) : ~Occurs(d, k, h)
PlaceIn(item, k) == CHOOSE j \in 1..Len(item) : item[j].k = k

\* k's first occurrence comes before l's when the records are scanned in batch
\* order and each record's keys in that record's own order.
OccursBefore(d, k, l) ==
  LET ik == FirstRecord(d, k)
      il == FirstRecord(d, l)
  IN \/ ik < il
     \/ ik = il /\ PlaceIn(d[ik], k) < PlaceIn(d[il], l)

RowsAligned ==
  /\ Len(mValues) = Len(mData)
  /\ \A i \in 1..Len(mValues) : Len(mValues[i]) = Len(mColumns)

----------------------------------------------------------------------------
(* The row mapper alone, over records with falsy values *)

\* 0, false, the empty string, and null or undefined.
CellValues == {Num("0"), Bool("false"), Str(""), Null}

\* Records of at most two fields, a and b in either order.
CellKeySeqs == {ks \in KeySeqs : \A i \in 1..Len(ks) : ks[i] \in {"a", "b"}}

CellRecords ==
  UNION {{[i \in 1..Len(ks) |-> [k |-> ks[i], v |-> vs[i]]]
            : vs \in [1..Len(ks) -> CellValues]} : ks \in CellKeySeqs}

InitCells ==
  /\ InitBase
  /\ KeysValid
  /\ tabs = <<"Leads">>
  /\ sheet = [tb \in TabTitles |-> <<>>]
  /\ mData \in UNION {[1..n -> CellRecords] : n \in 1..MaxRecords}

SpecCells == InitCells /\ [][BuildRows]_vars

\* The value record i of the batch holds under key k.
ValueAt(i, k) == mData[i][CHOOSE h \in 1..Len(mData[i]) : mData[i][h].k = k].v

\* C29: in the rows appendToSheet builds, a field whose value is null or
\* undefined is written as the empty string, exactly like a field the record
\* does not have, while 0, false and the empty string are written unchanged.
C29_NullishOnly ==
  mStage = "built" =>
    \A i \in 1..Len(mData) : \A j \in 1..Len(mColumns) :
      IF \E h \in 1..Len(mData[i]) : mData[i][h].k = mColumns[j]
        THEN IF ValueAt(i, mColumns[j]).t = "null"
               THEN mValues[i][j] = [t |-> "str", s |-> ""]
               ELSE mValues[i][j] = ValueAt(i, mColumns[j])
        ELSE mValues[i][j] = [t |-> "str", s |-> ""]

\* A row with 0 and false kept, under a row whose null and whose missing
\* field both came out as the empty string.
C29_Witness ==
  /\ mStage = "built"
  /\ mData = << <<Field("a", Null)>>,
                <<Field("b", Num("0")), Field("a", Bool("false"))>> >>
  /\ mValues = << <<Str(""), Str("")>>, <<Bool("false"), Num("0")>> >>

============================================================================
